---- MODULE Spec2Model ----
(***************************************************************************)
(* Distributed mutex on a transactional row store (py_spanner_mutex).      *)
(*                                                                         *)
(* Time is kept as ages: the model stores, for the mutex row, the number   *)
(* of seconds since its update_time_utc (now - update_time_utc), which is  *)
(* the only way the code reads that column.  Ages stop growing once they   *)
(* are past every threshold the code compares them with.                   *)
(***************************************************************************)
EXTENDS Integers, FiniteSets, Sequences, TLC

VARIABLES
    cfg,        \* the MutexConfig shared by all clients
    log,        \* log[c]: severity of the message the last start() of c ended with
    client_uuid, \* client_uuid[c]: the client_uuid controller c was constructed with
    row,        \* the mutex row of the table (NoRow when absent)
    pc,         \* pc[c]: where client c is in start()
    retries,    \* retries[c]: local variable of start(), 0 when start() is not running
    sleepLeft,  \* sleepLeft[c]: seconds left of time.sleep(mutex_wait_time_in_secs)
    held,       \* held[c]: seconds since c's STARTED commit, while c is in the critical section
    exc,        \* exc[c]: the exception start() caught at line 188 or ended with, as its chain of causes
    called,     \* called[c]: the calls of c's current start(), as the test doubles record them
    probe,      \* the client whose calls are recorded, "nobody" when none is
    answer      \* what the last call of status, validate or the codec gave its caller

vars == <<cfg, client_uuid, row, pc, retries, sleepLeft, held, exc, called, probe, answer, log>>

----------------------------------------------------------------------------
(* Bounds of the model *)

\* Ages are tracked AgeSlack seconds past the largest threshold of the code.
AgeSlack == 1
\* How many holders may die inside the critical section.
MaxCrashes == 1

\* Seconds between the datetime.utcnow() of _create_state and the commit of
\* the write that carries the candidate.
CommitLatency == 1

\* The controllers (instances of SpannerMutex).
Clients == {"c1", "c2"}

----------------------------------------------------------------------------
(* dto/mutex.py: constants and MutexConfig *)

MIN_MUTEX_TTL_IN_SECONDS == 10
MIN_MUTEX_WAIT_TIME_IN_SECONDS == 1
MIN_MUTEX_STALENESS_IN_SECONDS == MIN_MUTEX_TTL_IN_SECONDS + 1
MIN_MUTEX_MAX_RETRIES == 5

Max(a, b) == IF a >= b THEN a ELSE b
Min(a, b) == IF a <= b THEN a ELSE b

\* The attrs validators of the four numeric fields (ge(MIN_...)).
FieldValidators(c) ==
    /\ c.mutex_ttl_in_secs >= MIN_MUTEX_TTL_IN_SECONDS
    /\ c.mutex_staleness_in_secs >= MIN_MUTEX_STALENESS_IN_SECONDS
    /\ c.mutex_wait_time_in_secs >= MIN_MUTEX_WAIT_TIME_IN_SECONDS
    /\ c.mutex_max_retries >= MIN_MUTEX_MAX_RETRIES

\* An __attrs_post_init__ that compares with < where the code has <=.
AttrsPostInitAllowingEqual(c) ==
    LET max_retries_time == c.mutex_max_retries * c.mutex_wait_time_in_secs
        max_mutex_active_time == Max(max_retries_time, c.mutex_ttl_in_secs)
    IN  ~(c.mutex_staleness_in_secs < max_mutex_active_time)

\* MutexConfig.__attrs_post_init__: TRUE iff it does not raise ValueError.
AttrsPostInit(c) ==
    LET max_retries_time == c.mutex_max_retries * c.mutex_wait_time_in_secs
        max_mutex_active_time == Max(max_retries_time, c.mutex_ttl_in_secs)
    IN  ~(c.mutex_staleness_in_secs <= max_mutex_active_time)

\* Candidate constructor arguments; only those that construct are configs.
ConfigArgs ==
    [mutex_ttl_in_secs : {10, 40},
     mutex_staleness_in_secs : {12, 41},
     mutex_wait_time_in_secs : {1},
     mutex_max_retries : {5}]

Configs == {c \in ConfigArgs : FieldValidators(c) /\ AttrsPostInit(c)}

\* The configs whose staleness leaves room between the jittered lease and
\* the staleness horizon, and those whose lease is long enough for a jitter
\* of more than one second.
ShortLeaseConfigs ==
    {c \in Configs : c.mutex_ttl_in_secs = MIN_MUTEX_TTL_IN_SECONDS
                      /\ c.mutex_staleness_in_secs = MIN_MUTEX_STALENESS_IN_SECONDS + 1}
LongLeaseConfigs ==
    {c \in Configs : c.mutex_ttl_in_secs > MIN_MUTEX_TTL_IN_SECONDS}

----------------------------------------------------------------------------
(* dto/mutex.py: MutexStatus and MutexState *)

DONE == "done"
STARTED == "started"
FAILED == "failed"
UNKNOWN == ""
MutexStatus == {DONE, STARTED, FAILED, UNKNOWN}

\* The row is absent (Python None / StopIteration on the keyed read).
NoRow == [status |-> "absent", update_client_uuid |-> "none", age |-> 0]

\* Ages are exact up to AgeCap(c); past it every comparison of the code has
\* the same outcome.
AgeCap(c) ==
    Max(c.mutex_staleness_in_secs,
        c.mutex_ttl_in_secs + Max(c.mutex_ttl_in_secs \div 20, 1)) + AgeSlack

\* MutexState.is_state_stale(ttl_in_secs):
\*   update_time_utc + ttl_in_secs > utcnow()
MutexStateIsStateStale(state, ttl_in_secs) ==
    ttl_in_secs > state.age

----------------------------------------------------------------------------
(* spanner_mutex.py: the decision functions *)

\* _jitter_in_secs: the values _RAND.randint(0, max_jitter_in_secs) can return,
\* max_jitter_in_secs = int(max(ttl * 0.05, 1)).
MaxJitterInSecs(c) == Max(c.mutex_ttl_in_secs \div 20, 1)
JitterInSecs(c) == 0 .. MaxJitterInSecs(c)

\* Variants of _is_state_stale with a slip: the lease used as the horizon, and
\* the age never looked at.
IsStateStaleByTtl(state) ==
    state = NoRow \/ state.age > cfg.mutex_ttl_in_secs
IsStateStaleOnlyNone(state) ==
    state = NoRow
\* _is_state_stale with the comparison the other way round, as in
\* MutexState.is_state_stale.
IsStateStaleWhileYoung(state) ==
    state = NoRow \/ state.age < cfg.mutex_staleness_in_secs

\* _is_state_stale: state is None or update_time_utc + staleness < utcnow()
IsStateStale(state) ==
    state = NoRow \/ state.age > cfg.mutex_staleness_in_secs

\* Variants of _is_critical_section_done_or_started that forget one status.
IsCriticalSectionDone(state) ==
    state # NoRow /\ state.status \in {DONE}
IsCriticalSectionStarted(state) ==
    state # NoRow /\ state.status \in {STARTED}

\* _is_critical_section_done_or_started
IsCriticalSectionDoneOrStarted(state) ==
    state # NoRow /\ state.status \in {DONE, STARTED}

\* _is_watermark_breached, with jitter the value _jitter_in_secs returned
IsWatermarkBreached(state, jitter) ==
    IF state # NoRow
    THEN MutexStateIsStateStale(state, cfg.mutex_ttl_in_secs + jitter)
    ELSE TRUE

\* _should_try_to_acquire_mutex
ShouldTryToAcquireMutex(state, jitter) ==
    IF state = NoRow THEN TRUE
    ELSE IF IsStateStale(state) THEN TRUE
    ELSE IF ~IsCriticalSectionDoneOrStarted(state) /\ IsWatermarkBreached(state, jitter)
         THEN TRUE
    ELSE FALSE

\* A can_upsert without the branch for the client's own row.
CanUpsertIgnoringClient(c, existing_row, status, jitter) ==
    IF existing_row = NoRow THEN TRUE
    ELSE ShouldTryToAcquireMutex(existing_row, jitter)

\* A can_upsert that lets a client overwrite its own row whatever the
\* candidate's status.
CanUpsertOwnRowAlways(c, existing_row, status, jitter) ==
    IF existing_row = NoRow THEN TRUE
    ELSE IF existing_row.update_client_uuid = client_uuid[c] THEN TRUE
    ELSE ShouldTryToAcquireMutex(existing_row, jitter)

\* _set_mutex.can_upsert for client c, the row read in the transaction and
\* the candidate's status
CanUpsert(c, existing_row, status, jitter) ==
    IF existing_row = NoRow THEN TRUE
    ELSE IF existing_row.update_client_uuid = client_uuid[c]
            /\ status # existing_row.status
         THEN TRUE
    ELSE ShouldTryToAcquireMutex(existing_row, jitter)

\* The Python values the codec handles: a str, a uuid.UUID and a member of
\* MutexStatus, each with its text (for a member, its value).
Str(text) == [type |-> "str", value |-> text]
UUID(text) == [type |-> "UUID", value |-> text]
Member(value) == [type |-> "MutexStatus", value |-> value]

\* A datetime: its reading in seconds relative to the present instant on the
\* UTC clock, and whether it carries a time zone (always UTC when it does).
\* A naive datetime equals no aware one.
NaiveDatetime(wall) == [commit_timestamp |-> FALSE, aware |-> FALSE, wall |-> wall]
UtcDatetime(wall) == [commit_timestamp |-> FALSE, aware |-> TRUE, wall |-> wall]

\* spanner.COMMIT_TIMESTAMP, the placeholder the store replaces.
COMMIT_TIMESTAMP == [commit_timestamp |-> TRUE, aware |-> FALSE, wall |-> 0]

\* The key of the mutex, config.mutex_uuid.
MutexUuid == "mutex"

\* A _create_state that signs the candidate with the key of the mutex instead
\* of the client.
CreateStateSignedByMutex(c, status) ==
    [uuid |-> UUID(MutexUuid),
     display_name |-> Str(MutexUuid),
     status |-> Member(status),
     update_time_utc |-> NaiveDatetime(0 - CommitLatency),
     update_client_uuid |-> UUID(MutexUuid),
     update_client_display_name |-> Str(MutexUuid)]

\* _create_state of a controller whose client_uuid is c: the candidate
\* MutexState.  Its update_time_utc is the client's datetime.utcnow(), a naive
\* datetime read CommitLatency seconds before the write commits.
CreateState(c, status) ==
    [uuid |-> UUID(MutexUuid),
     display_name |-> Str(MutexUuid),
     status |-> Member(status),
     update_time_utc |-> NaiveDatetime(0 - CommitLatency),
     update_client_uuid |-> UUID(c),
     update_client_display_name |-> Str(c)]

\* HasFromJsonString.as_dict: the fields of the object by name.
AsDict(state) == state

\* A to_spanner_row that always keeps the update_time_utc of the state.
ToSpannerRowKeepingClientTime(state, with_commit_ts) ==
    [AsDict(state) EXCEPT !.uuid = Str(state.uuid.value),
                          !.status = Str(state.status.value),
                          !.update_client_uuid = Str(state.update_client_uuid.value)]

\* MutexState.to_spanner_row: the uuids as str, the status as its value, and
\* with_commit_ts puts the placeholder in place of the update_time_utc.
ToSpannerRow(state, with_commit_ts) ==
    [AsDict(state) EXCEPT !.uuid = Str(state.uuid.value),
                          !.status = Str(state.status.value),
                          !.update_client_uuid = Str(state.update_client_uuid.value),
                          !.update_time_utc =
                              IF with_commit_ts THEN COMMIT_TIMESTAMP ELSE @]

\* The store at the commit: the placeholder becomes the commit timestamp, a
\* datetime is stored as the UTC time it reads; what is read back is aware.
Commit(spanner_row, commit_timestamp) ==
    [spanner_row EXCEPT !.update_time_utc =
        IF @.commit_timestamp THEN commit_timestamp ELSE UtcDatetime(@.wall)]

\* _str_uuid_converter: a UUID as it is, a str parsed.
StrUuidConverter(value) ==
    IF value.type = "UUID" THEN value ELSE UUID(value.value)

\* EnumWithFromStrIgnoreCase.from_str: the member with that value.
FromStr(value) == Member(value.value)

\* datetime.astimezone(pytz.UTC): an aware datetime keeps its instant, a naive
\* one is taken as the local time of the host, local_utc_offset seconds ahead
\* of UTC.
AsTimezoneUtc(datetime, local_utc_offset) ==
    IF datetime.aware THEN datetime
    ELSE UtcDatetime(datetime.wall - local_utc_offset)

\* MutexState.from_spanner_row
FromSpannerRow(spanner_row, local_utc_offset) ==
    [uuid |-> StrUuidConverter(spanner_row.uuid),
     display_name |-> spanner_row.display_name,
     status |-> FromStr(spanner_row.status),
     update_time_utc |-> AsTimezoneUtc(spanner_row.update_time_utc, local_utc_offset),
     update_client_uuid |-> UUID(spanner_row.update_client_uuid.value),
     update_client_display_name |-> spanner_row.update_client_display_name]

\* What the protocol looks at in a MutexState: its status, its writer and the
\* seconds since its update_time_utc.
RowOf(state) ==
    [status |-> state.status.value,
     update_client_uuid |-> state.update_client_uuid.value,
     age |-> 0 - state.update_time_utc.wall]

\* _set_mutex, lines 322-328, and the read that follows: the row a committed
\* upsert of the candidate leaves in the table (to_spanner_row with its
\* default with_commit_ts), as from_spanner_row gives it back.  What the store
\* returns is aware, so the zone of the host plays no part.
CommittedRows ==
    [uuid \in Clients, status \in MutexStatus |->
        RowOf(FromSpannerRow(Commit(ToSpannerRow(CreateState(uuid, status), TRUE),
                                    UtcDatetime(0)), 0))]

\* The row controller c leaves in the table when its upsert commits.
CommittedState(c, status) == CommittedRows[client_uuid[c], status]

\* A conditional upsert that writes the row first and asks can_upsert after.
ConditionalUpsertWritingFirst(c, status, jitter, trs) ==
    IF trs = "error" THEN [raised |-> TRUE, result |-> FALSE, row |-> row]
    ELSE [raised |-> FALSE, result |-> CanUpsert(c, row, status, jitter),
          row |-> CommittedState(c, status)]

\* spanner.conditional_upsert_table_row: one serializable transaction that
\* reads the row, asks can_upsert, and writes iff it said yes.  trs = "error"
\* is a failure of the store, which raises before anything is written.
ConditionalUpsertTableRow(c, status, jitter, trs) ==
    IF trs = "error" THEN [raised |-> TRUE, result |-> FALSE, row |-> row]
    ELSE IF CanUpsert(c, row, status, jitter)
         THEN [raised |-> FALSE, result |-> TRUE, row |-> CommittedState(c, status)]
    ELSE [raised |-> FALSE, result |-> FALSE, row |-> row]

\* A _set_mutex that logs the exception of the upsert and reports success.
SetMutexSwallowingError(c, status, jitter, trs) ==
    LET r == ConditionalUpsertTableRow(c, status, jitter, trs)
    IN  [result |-> IF r.raised THEN TRUE ELSE r.result, row |-> r.row]

\* _set_mutex: an exception of the upsert is logged and becomes False.
SetMutex(c, status, jitter, trs) ==
    LET r == ConditionalUpsertTableRow(c, status, jitter, trs)
    IN  [result |-> IF r.raised THEN FALSE ELSE r.result, row |-> r.row]

TrsOutcomes == {"ok", "error"}

----------------------------------------------------------------------------
(* State *)

\* Positions of a client in start():
\*   idle          start() not called yet
\*   check         at the loop condition (line 175)
\*   read          before the snapshot read of the row (line 177)
\*   acquire       before _acquire_mutex (line 180)
\*   cs            inside execute_critical_section (line 183)
\*   release       before _release_mutex() (line 184)
\*   release_error before _release_mutex(error=err) (line 190)
\*   sleep         in time.sleep (line 196)
\*   returned      start() returned normally
\*   raised        start() ended with an exception
\*   crashed       the process died while in the critical section
Positions ==
    {"idle", "check", "read", "acquire", "cs", "release", "release_error",
     "sleep", "returned", "raised", "crashed"}

\* The kinds of exception in play.  An exception is written as its chain of
\* __cause__: the exception itself first, then what it was raised from.
SpannerMutexError == "SpannerMutexError"
SpannerError == "SpannerError"       \* whatever the table access raises
HookError == "HookError"             \* whatever a method of the subclass raises
NoException == <<>>

\* raise SpannerMutexError(...), the `from err` forgotten
RaiseWithoutCause(err) == <<SpannerMutexError>>

\* raise SpannerMutexError(...) from err
RaiseFrom(err) == <<SpannerMutexError>> \o err

\* What the test doubles record of one start(): how often each hook and each
\* function of the spanner module was called.
NoCalls ==
    [is_mutex_needed |-> 0, read_table_rows |-> 0,
     conditional_upsert_table_row |-> 0, read_in_transaction |-> 0,
     execute_critical_section |-> 0]

\* The record after one more call of each function of the set fns.
CalledMore(rec, fns) ==
    [f \in DOMAIN rec |-> IF f \in fns THEN rec[f] + 1 ELSE rec[f]]

\* called after client c's record became rec; only the client with the
\* doubles is recorded.
Recorded(c, rec) == IF probe = c THEN [called EXCEPT ![c] = rec] ELSE called

\* A _set_mutex whose can_upsert decides without reading the row.
SetMutexCallsWithoutRead == {"conditional_upsert_table_row"}

\* The calls one _set_mutex makes: conditional_upsert_table_row, and in its
\* transaction the read_in_transaction of can_upsert.  A failure of the
\* table is that read or the commit after it failing.
SetMutexCalls == {"conditional_upsert_table_row", "read_in_transaction"}

\* The outcome of a call: the operation, and the value returned or the kind
\* of exception raised.
Answer(op, value) == [op |-> op, value |-> value]
NoAnswer == Answer("none", "none")

\* Severities of the logging module, and no message logged.
CRITICAL == "critical"
INFO == "info"
NoLog == "none"

\* The severity of the message start() ends with, lines 198-209; has_executed
\* is the local of that name and n the local retries.
EndOfStartLog(n, has_executed) ==
    IF n > cfg.mutex_max_retries /\ ~has_executed THEN CRITICAL ELSE INFO

\* The table holds no row for the mutex before the first acquire.
InitWith(configs) ==
    /\ cfg \in configs
    /\ row = NoRow
    /\ pc = [c \in Clients |-> "idle"]
    /\ retries = [c \in Clients |-> 0]
    /\ sleepLeft = [c \in Clients |-> 0]
    /\ held = [c \in Clients |-> 0]
    /\ exc = [c \in Clients |-> NoException]
    /\ called = [c \in Clients |-> NoCalls]
    /\ answer = NoAnswer
    /\ log = [c \in Clients |-> NoLog]

\* Every controller constructed with a client_uuid of its own (the default,
\* uuid.uuid4() per instance).
DistinctUuids == [c \in Clients |-> c]

\* Every controller constructed with the same client_uuid argument.
SharedUuid == [c \in Clients |-> CHOOSE u \in Clients : TRUE]

Init ==
    InitWith(ShortLeaseConfigs) /\ probe = "nobody" /\ client_uuid = DistinctUuids

InitLongLease ==
    InitWith(LongLeaseConfigs) /\ probe = "nobody" /\ client_uuid = DistinctUuids

\* The same clients, one of them with the recording test doubles.
InitCalled ==
    /\ InitWith(ShortLeaseConfigs)
    /\ probe = CHOOSE c \in Clients : TRUE
    /\ client_uuid = DistinctUuids

\* Two controllers of one client_uuid.
InitSharedUuid ==
    InitWith(ShortLeaseConfigs) /\ probe = "nobody" /\ client_uuid = SharedUuid

InCriticalSection == {c \in Clients : pc[c] = "cs"}

----------------------------------------------------------------------------
(* start(), one action per step between two blocking points *)

\* A start() that calls validate with raise_if_invalid=False and goes on
\* whatever it returned.
StartIgnoringValidate(c, valid) ==
    /\ pc[c] \in {"idle", "returned", "raised"}
    /\ pc' = [pc EXCEPT ![c] = "check"]
    /\ exc' = [exc EXCEPT ![c] = NoException]
    /\ retries' = [retries EXCEPT ![c] = 0]
    /\ called' = Recorded(c, NoCalls)
    /\ log' = [log EXCEPT ![c] = NoLog]
    /\ UNCHANGED <<cfg, client_uuid, answer, row, sleepLeft, held, probe>>

\* start() lines 171-174: validate(raise_if_invalid=True), then the locals.
\* valid = FALSE is _spanner_table raising, which validate turns into
\* SpannerMutexError.
Start(c, valid) ==
    /\ pc[c] \in {"idle", "returned", "raised"}
    /\ pc' = [pc EXCEPT ![c] = IF valid THEN "check" ELSE "raised"]
    /\ exc' = [exc EXCEPT ![c] = IF valid THEN NoException ELSE RaiseFrom(<<SpannerError>>)]
    /\ retries' = [retries EXCEPT ![c] = 0]
    /\ called' = Recorded(c, NoCalls)
    /\ log' = [log EXCEPT ![c] = NoLog]
    /\ UNCHANGED <<cfg, client_uuid, answer, row, sleepLeft, held, probe>>

\* A loop condition that calls the hook and tests the retry count alone.
LoopConditionIgnoringHook(c, needed) ==
    /\ pc[c] = "check"
    /\ pc' = [pc EXCEPT ![c] =
                IF needed = "raise" THEN "raised"
                ELSE IF retries[c] < cfg.mutex_max_retries THEN "read"
                ELSE "returned"]
    /\ exc' = [exc EXCEPT ![c] =
                IF needed = "raise" THEN RaiseFrom(<<HookError>>) ELSE NoException]
    /\ retries' = [retries EXCEPT ![c] = IF pc'[c] = "read" THEN retries[c] ELSE 0]
    /\ called' = Recorded(c, CalledMore(called[c], {"is_mutex_needed"}))
    /\ log' = [log EXCEPT ![c] =
                 IF pc'[c] = "returned" THEN EndOfStartLog(retries[c], FALSE) ELSE NoLog]
    /\ UNCHANGED <<cfg, client_uuid, answer, row, sleepLeft, held, probe>>

\* The loop condition, line 175: _safe_is_mutex_needed() is evaluated first,
\* then retries < mutex_max_retries.  needed is what the hook does:
\* "true", "false" or "raise".  When the condition fails start() ends with
\* the message of lines 198-209, has_executed being False on this path.
LoopCondition(c, needed) ==
    /\ pc[c] = "check"
    /\ pc' = [pc EXCEPT ![c] =
                IF needed = "raise" THEN "raised"
                ELSE IF needed = "true" /\ retries[c] < cfg.mutex_max_retries
                     THEN "read"
                ELSE "returned"]
    /\ exc' = [exc EXCEPT ![c] =
                IF needed = "raise" THEN RaiseFrom(<<HookError>>) ELSE NoException]
    /\ retries' = [retries EXCEPT ![c] = IF pc'[c] = "read" THEN retries[c] ELSE 0]
    /\ called' = Recorded(c, CalledMore(called[c], {"is_mutex_needed"}))
    /\ log' = [log EXCEPT ![c] =
                 IF pc'[c] = "returned" THEN EndOfStartLog(retries[c], FALSE) ELSE NoLog]
    /\ UNCHANGED <<cfg, client_uuid, answer, row, sleepLeft, held, probe>>

\* Lines 177-179 and, when the answer is no, the start of the sleep of line
\* 196: the snapshot read and _should_try_to_acquire_mutex on what it returned.
\* trs = "error" is the read raising, which _state does not catch.
ReadState(c, trs, jitter) ==
    /\ pc[c] = "read"
    /\ IF trs = "error"
       THEN /\ pc' = [pc EXCEPT ![c] = "raised"]
            /\ exc' = [exc EXCEPT ![c] = <<SpannerError>>]
            /\ UNCHANGED sleepLeft
       ELSE IF ShouldTryToAcquireMutex(row, jitter)
            THEN /\ pc' = [pc EXCEPT ![c] = "acquire"]
                 /\ UNCHANGED <<sleepLeft, exc>>
       ELSE /\ pc' = [pc EXCEPT ![c] = "sleep"]
            /\ sleepLeft' = [sleepLeft EXCEPT ![c] = cfg.mutex_wait_time_in_secs]
            /\ UNCHANGED exc
    /\ called' = Recorded(c, CalledMore(called[c], {"read_table_rows"}))
    /\ retries' = [retries EXCEPT ![c] = IF trs = "error" THEN 0 ELSE retries[c]]
    /\ UNCHANGED <<cfg, client_uuid, log, answer, row, held, probe>>

\* A start() that runs the critical section whatever _acquire_mutex returned.
AcquireMutexIgnoringResult(c, trs, jitter) ==
    /\ pc[c] = "acquire"
    /\ LET r == SetMutex(c, STARTED, jitter, trs)
       IN  row' = r.row
    /\ pc' = [pc EXCEPT ![c] = "cs"]
    /\ held' = [held EXCEPT ![c] = 0]
    /\ called' = Recorded(c, CalledMore(called[c],
                     SetMutexCalls \cup {"execute_critical_section"}))
    /\ UNCHANGED <<cfg, client_uuid, log, answer, retries, exc, probe, sleepLeft>>

\* Line 180, _acquire_mutex: the conditional upsert of a STARTED row.  When it
\* commits the client enters execute_critical_section; otherwise it sleeps.
AcquireMutex(c, trs, jitter) ==
    /\ pc[c] = "acquire"
    /\ LET r == SetMutex(c, STARTED, jitter, trs)
       IN  /\ row' = r.row
           /\ IF r.result
              THEN /\ pc' = [pc EXCEPT ![c] = "cs"]
                   /\ held' = [held EXCEPT ![c] = 0]
                   /\ called' = Recorded(c, CalledMore(called[c],
                            SetMutexCalls \cup {"execute_critical_section"}))
                   /\ UNCHANGED sleepLeft
              ELSE /\ pc' = [pc EXCEPT ![c] = "sleep"]
                   /\ sleepLeft' = [sleepLeft EXCEPT ![c] = cfg.mutex_wait_time_in_secs]
                   /\ called' = Recorded(c, CalledMore(called[c], SetMutexCalls))
                   /\ UNCHANGED held
    /\ UNCHANGED <<cfg, client_uuid, log, answer, retries, exc, probe>>

\* Line 183: execute_critical_section returns (ok) or raises (~ok); what it
\* raises reaches line 188 wrapped by _safe_method_execution.
ExecuteCriticalSection(c, ok) ==
    /\ pc[c] = "cs"
    /\ pc' = [pc EXCEPT ![c] = IF ok THEN "release" ELSE "release_error"]
    /\ exc' = [exc EXCEPT ![c] = IF ok THEN NoException ELSE RaiseFrom(<<HookError>>)]
    /\ held' = [held EXCEPT ![c] = 0]
    /\ UNCHANGED <<cfg, client_uuid, log, answer, row, retries, sleepLeft, called, probe>>

\* A release that deletes the row instead of overwriting it with DONE.
ReleaseMutexDeletingRow(c, trs, jitter) ==
    /\ pc[c] = "release"
    /\ LET r == SetMutex(c, DONE, jitter, trs)
       IN  /\ row' = IF r.result THEN NoRow ELSE row
           /\ pc' = [pc EXCEPT ![c] = IF r.result THEN "returned" ELSE "release_error"]
           /\ exc' = [exc EXCEPT ![c] =
                        IF r.result THEN NoException ELSE <<SpannerMutexError>>]
    /\ retries' = [retries EXCEPT ![c] = IF pc'[c] = "returned" THEN 0 ELSE retries[c]]
    /\ called' = Recorded(c, CalledMore(called[c], SetMutexCalls))
    /\ log' = [log EXCEPT ![c] =
                 IF pc'[c] = "returned" THEN EndOfStartLog(retries[c], TRUE) ELSE NoLog]
    /\ UNCHANGED <<cfg, client_uuid, answer, sleepLeft, held, probe>>

\* Lines 184-187, _release_mutex(): the conditional upsert of a DONE row.  When
\* it is refused the SpannerMutexError it raises is caught at line 188.
\* When it commits, has_executed = True, break, and the message of lines
\* 198-209.
ReleaseMutex(c, trs, jitter) ==
    /\ pc[c] = "release"
    /\ LET r == SetMutex(c, DONE, jitter, trs)
       IN  /\ row' = r.row
           /\ pc' = [pc EXCEPT ![c] = IF r.result THEN "returned" ELSE "release_error"]
           /\ exc' = [exc EXCEPT ![c] =
                        IF r.result THEN NoException ELSE <<SpannerMutexError>>]
    /\ retries' = [retries EXCEPT ![c] = IF pc'[c] = "returned" THEN 0 ELSE retries[c]]
    /\ called' = Recorded(c, CalledMore(called[c], SetMutexCalls))
    /\ log' = [log EXCEPT ![c] =
                 IF pc'[c] = "returned" THEN EndOfStartLog(retries[c], TRUE) ELSE NoLog]
    /\ UNCHANGED <<cfg, client_uuid, answer, sleepLeft, held, probe>>

\* A start() that swallows the failure of the critical section and goes on
\* to the sleep and the next cycle.
ReleaseMutexErrorRetrying(c, trs, jitter) ==
    /\ pc[c] = "release_error"
    /\ LET r == SetMutex(c, FAILED, jitter, trs)
       IN  row' = r.row
    /\ pc' = [pc EXCEPT ![c] = "sleep"]
    /\ sleepLeft' = [sleepLeft EXCEPT ![c] = cfg.mutex_wait_time_in_secs]
    /\ exc' = [exc EXCEPT ![c] = NoException]
    /\ called' = Recorded(c, CalledMore(called[c], SetMutexCalls))
    /\ UNCHANGED <<cfg, client_uuid, log, answer, retries, held, probe>>

\* Lines 188-190, _release_mutex(error=err): the conditional upsert of a
\* FAILED row; it raises SpannerMutexError whether or not the row was written,
\* from the caught error only when it was.
ReleaseMutexError(c, trs, jitter) ==
    /\ pc[c] = "release_error"
    /\ LET r == SetMutex(c, FAILED, jitter, trs)
       IN  /\ row' = r.row
           /\ exc' = [exc EXCEPT ![c] =
                        IF r.result THEN RaiseFrom(exc[c]) ELSE <<SpannerMutexError>>]
    /\ pc' = [pc EXCEPT ![c] = "raised"]
    /\ retries' = [retries EXCEPT ![c] = 0]
    /\ called' = Recorded(c, CalledMore(called[c], SetMutexCalls))
    /\ UNCHANGED <<cfg, client_uuid, log, answer, sleepLeft, held, probe>>

\* A loop that sleeps and forgets to count the cycle.
SleepWithoutCounting(c) ==
    /\ pc[c] = "sleep"
    /\ sleepLeft[c] = 0
    /\ pc' = [pc EXCEPT ![c] = "check"]
    /\ UNCHANGED <<cfg, client_uuid, log, answer, row, retries, sleepLeft, held, exc, called, probe>>

\* Lines 196-197: time.sleep has returned; retries += 1.
Sleep(c) ==
    /\ pc[c] = "sleep"
    /\ sleepLeft[c] = 0
    /\ retries' = [retries EXCEPT ![c] = retries[c] + 1]
    /\ pc' = [pc EXCEPT ![c] = "check"]
    /\ UNCHANGED <<cfg, client_uuid, log, answer, row, sleepLeft, held, exc, called, probe>>

\* The holder's process dies inside the critical section and never writes again.
Crash(c) ==
    /\ pc[c] = "cs"
    /\ Cardinality({d \in Clients : pc[d] = "crashed"}) < MaxCrashes
    /\ pc' = [pc EXCEPT ![c] = "crashed"]
    /\ held' = [held EXCEPT ![c] = 0]
    /\ UNCHANGED <<cfg, client_uuid, log, answer, row, retries, sleepLeft, exc, called, probe>>

\* One second passes on every clock.
Tick ==
    /\ row' = IF row = NoRow THEN row
              ELSE [row EXCEPT !.age = Min(row.age + 1, AgeCap(cfg))]
    /\ held' = [c \in Clients |->
                  IF pc[c] = "cs" THEN Min(held[c] + 1, AgeCap(cfg)) ELSE held[c]]
    /\ sleepLeft' = [c \in Clients |-> Max(sleepLeft[c] - 1, 0)]
    /\ UNCHANGED <<cfg, client_uuid, log, answer, pc, retries, exc, called, probe>>

\* A status that returns the status of whatever _state gave, None included.
StatusWithoutDefault(c, trs) ==
    /\ pc[c] \in {"idle", "returned", "raised"}
    /\ answer' = Answer("status", IF trs = "error" THEN SpannerError ELSE row.status)
    /\ UNCHANGED <<cfg, client_uuid, log, row, pc, retries, sleepLeft, held, exc, called, probe>>

\* The status property, lines 114-123, between two calls of start(): the
\* snapshot read of _state, whose failure nothing catches, and UNKNOWN for no
\* row.
Status(c, trs) ==
    /\ pc[c] \in {"idle", "returned", "raised"}
    /\ answer' = Answer("status",
                    IF trs = "error" THEN SpannerError
                    ELSE IF row = NoRow THEN UNKNOWN
                    ELSE row.status)
    /\ UNCHANGED <<cfg, client_uuid, log, row, pc, retries, sleepLeft, held, exc, called, probe>>

\* A validate that raises whatever raise_if_invalid says.
ValidateAlwaysRaising(c, raise_if_invalid, found) ==
    /\ pc[c] \in {"idle", "returned", "raised"}
    /\ answer' = Answer("validate", IF found THEN "True" ELSE SpannerMutexError)
    /\ UNCHANGED <<cfg, client_uuid, log, row, pc, retries, sleepLeft, held, exc, called, probe>>

\* validate, lines 82-112, between two calls of start().  found = FALSE is
\* _spanner_table raising.
Validate(c, raise_if_invalid, found) ==
    /\ pc[c] \in {"idle", "returned", "raised"}
    /\ answer' = Answer("validate",
                    IF found THEN "True"
                    ELSE IF raise_if_invalid THEN SpannerMutexError
                    ELSE "False")
    /\ UNCHANGED <<cfg, client_uuid, log, row, pc, retries, sleepLeft, held, exc, called, probe>>

Next ==
    \/ \E c \in Clients, valid \in BOOLEAN : Start(c, valid)
    \/ \E c \in Clients, needed \in {"true", "false", "raise"} : LoopCondition(c, needed)
    \/ \E c \in Clients, trs \in TrsOutcomes, j \in JitterInSecs(cfg) : ReadState(c, trs, j)
    \/ \E c \in Clients, trs \in TrsOutcomes, j \in JitterInSecs(cfg) : AcquireMutex(c, trs, j)
    \/ \E c \in Clients, ok \in BOOLEAN : ExecuteCriticalSection(c, ok)
    \/ \E c \in Clients, trs \in TrsOutcomes, j \in JitterInSecs(cfg) : ReleaseMutex(c, trs, j)
    \/ \E c \in Clients, trs \in TrsOutcomes, j \in JitterInSecs(cfg) : ReleaseMutexError(c, trs, j)
    \/ \E c \in Clients : Sleep(c)
    \/ \E c \in Clients : Crash(c)
    \/ Tick

Spec == Init /\ [][Next]_vars

\* The same program with the calls of one client recorded.
SpecCalled == InitCalled /\ [][Next]_vars

\* The same program run by controllers that share one client_uuid.
SpecSharedUuid == InitSharedUuid /\ [][Next]_vars

\* What one client can do when the table answers, validation passes and
\* is_mutex_needed returns true.
ClientStep(c) ==
    \/ Start(c, TRUE)
    \/ LoopCondition(c, "true")
    \/ \E j \in JitterInSecs(cfg) : ReadState(c, "ok", j)
    \/ \E j \in JitterInSecs(cfg) : AcquireMutex(c, "ok", j)
    \/ \E ok \in BOOLEAN : ExecuteCriticalSection(c, ok)
    \/ \E j \in JitterInSecs(cfg) : ReleaseMutex(c, "ok", j)
    \/ \E j \in JitterInSecs(cfg) : ReleaseMutexError(c, "ok", j)
    \/ Sleep(c)

NextLive ==
    \/ \E c \in Clients : ClientStep(c)
    \/ \E c \in Clients : Crash(c)
    \/ Tick

\* The clients also ask for the status and validate between their calls of
\* start().
NextOperations ==
    \/ NextLive
    \/ \E c \in Clients, trs \in TrsOutcomes : Status(c, trs)
    \/ \E c \in Clients, raise_if_invalid \in BOOLEAN, found \in BOOLEAN :
            Validate(c, raise_if_invalid, found)

SpecOperations == Init /\ [][NextOperations]_vars

\* The codec called on its own, as the tests do: a MutexState is encoded, the
\* store may put a commit timestamp in place of the placeholder, and the row
\* is decoded on a host whose local time is local_utc_offset seconds ahead of
\* UTC.
LocalUtcOffsets == {-3600, 0, 3600}
Datetimes ==
    {NaiveDatetime(0 - w) : w \in 0..CommitLatency}
        \cup {UtcDatetime(0 - w) : w \in 0..CommitLatency}
CommitTimestamps == {UtcDatetime(0 - w) : w \in 0..CommitLatency}
MutexStates ==
    [uuid : {UUID(MutexUuid)},
     display_name : {Str(MutexUuid)},
     status : {Member(v) : v \in MutexStatus},
     update_time_utc : Datetimes,
     update_client_uuid : {UUID(c) : c \in Clients},
     update_client_display_name : {Str("client")}]

ToSpannerRowCall(state, with_commit_ts) ==
    /\ answer.op # "to_spanner_row"
    /\ answer' = Answer("to_spanner_row",
                        [state |-> state, with_commit_ts |-> with_commit_ts,
                         spanner_row |-> ToSpannerRow(state, with_commit_ts)])
    /\ UNCHANGED <<cfg, client_uuid, log, row, pc, retries, sleepLeft, held, exc, called, probe>>

CommitCall(commit_timestamp) ==
    /\ answer.op = "to_spanner_row"
    /\ answer.value.spanner_row.update_time_utc.commit_timestamp
    /\ answer' = Answer("to_spanner_row",
                        [answer.value EXCEPT
                            !.spanner_row = Commit(@, commit_timestamp)])
    /\ UNCHANGED <<cfg, client_uuid, log, row, pc, retries, sleepLeft, held, exc, called, probe>>

\* from_spanner_row is given rows that hold a datetime, never the placeholder.
FromSpannerRowCall(local_utc_offset) ==
    /\ answer.op = "to_spanner_row"
    /\ ~answer.value.spanner_row.update_time_utc.commit_timestamp
    /\ answer' = Answer("from_spanner_row",
                        [state |-> answer.value.state,
                         with_commit_ts |-> answer.value.with_commit_ts,
                         spanner_row |-> answer.value.spanner_row,
                         result |-> FromSpannerRow(answer.value.spanner_row,
                                                   local_utc_offset)])
    /\ UNCHANGED <<cfg, client_uuid, log, row, pc, retries, sleepLeft, held, exc, called, probe>>

NextCodec ==
    \/ \E state \in MutexStates, with_commit_ts \in BOOLEAN :
            ToSpannerRowCall(state, with_commit_ts)
    \/ \E commit_timestamp \in CommitTimestamps : CommitCall(commit_timestamp)
    \/ \E local_utc_offset \in LocalUtcOffsets : FromSpannerRowCall(local_utc_offset)

SpecCodec == Init /\ [][NextCodec]_vars

\* Every client that has not crashed keeps running and calls start() again when
\* it has ended, and the clocks advance.
SpecLive ==
    /\ Init
    /\ [][NextLive]_vars
    /\ WF_vars(Tick)
    /\ \A c \in Clients : WF_vars(ClientStep(c))

\* The same program under a config with a long lease.
SpecLongLease == InitLongLease /\ [][Next]_vars

----------------------------------------------------------------------------
(* Properties *)

T == cfg.mutex_ttl_in_secs
S == cfg.mutex_staleness_in_secs
MaxJitter == Max(T \div 20, 1)

OtherClients(c) == Clients \ {c}
RowIs(status, c) == row.status = status /\ row.update_client_uuid = c
OlderThanS == row = NoRow \/ row.age > S

C2_CrashTakeover ==
    \A c \in Clients :
        (pc[c] = "crashed" /\ RowIs(STARTED, c))
            ~> (\/ \E d \in OtherClients(c) : pc[d] = "cs" /\ RowIs(STARTED, d)
                \/ \A d \in OtherClients(c) : pc[d] = "crashed")

\* Another client holds the mutex after the holder crashed.
C2_Witness ==
    \E c \in Clients : \E d \in OtherClients(c) :
        pc[c] = "crashed" /\ pc[d] = "cs" /\ RowIs(STARTED, d) /\ row.age = 0

\* C3: a STARTED row older than T + max jitter and not older than S makes
\* should_try_to_acquire true and lets another client's STARTED upsert commit.
C3_TtlExpiryLetsOthersTakeOver ==
    (row.status = STARTED /\ row.age > T + MaxJitter /\ row.age <= S)
        => \A j \in JitterInSecs(cfg) :
              /\ ShouldTryToAcquireMutex(row, j)
              /\ \A c \in Clients \ {row.update_client_uuid} :
                    CanUpsert(c, row, STARTED, j)

C5_LiveLeaseNotAcquirable ==
    (row.status = STARTED /\ row.age <= T)
        => \A j \in JitterInSecs(cfg) :
              /\ ~ShouldTryToAcquireMutex(row, j)
              /\ \A c \in Clients \ {row.update_client_uuid} :
                    ~CanUpsert(c, row, STARTED, j)

\* The lease is in its last second and the other client was just sent to sleep.
C5_Witness ==
    \E c \in Clients : \E d \in OtherClients(c) :
        /\ RowIs(STARTED, c) /\ row.age = T /\ pc[c] = "cs"
        /\ pc[d] = "sleep" /\ sleepLeft[d] = cfg.mutex_wait_time_in_secs

\* C6: while the row is DONE and not older than S, should_try_to_acquire is
\* false, no step changes the row's status or writer or makes it younger, and
\* no client enters execute_critical_section.
C6_FreshDoneNotPreempted ==
    [][(row.status = DONE /\ row.age <= S)
        => /\ \A j \in JitterInSecs(cfg) : ~ShouldTryToAcquireMutex(row, j)
           /\ row'.status = DONE
           /\ row'.update_client_uuid = row.update_client_uuid
           /\ row'.age >= row.age
           /\ \A c \in Clients : pc'[c] = "cs" => pc[c] = "cs"]_vars

\* A DONE row that is not stale, its writer back in the loop of a new start()
\* and the other client in the loop as well.
C6_Witness ==
    \E c \in Clients : \E d \in OtherClients(c) :
        /\ RowIs(DONE, c) /\ row.age <= S /\ row.age > T
        /\ pc[c] = "sleep" /\ pc[d] = "sleep"

\* C7: is_watermark_breached(state) is true iff state is absent or
\* update_time_utc + T + jitter < now.
C7_WatermarkBreachedIffOlder ==
    \A j \in JitterInSecs(cfg) :
        IsWatermarkBreached(row, j) <=> (row = NoRow \/ row.age > T + j)

\* C8: a FAILED or UNKNOWN row older than T + floor(T * 5%) makes
\* should_try_to_acquire true.
C8_FailedPreemptedAfterTtl ==
    (row.status \in {FAILED, UNKNOWN} /\ row.age > T + (T \div 20))
        => \A j \in JitterInSecs(cfg) : ShouldTryToAcquireMutex(row, j)

\* C9: a FAILED or UNKNOWN row of age 0 makes should_try_to_acquire false and
\* can_upsert refuses a STARTED candidate of any other client.
C9_FreshFailedNotAcquirable ==
    (row.status \in {FAILED, UNKNOWN} /\ row.age = 0)
        => \A j \in JitterInSecs(cfg) :
              /\ ~ShouldTryToAcquireMutex(row, j)
              /\ \A c \in Clients \ {row.update_client_uuid} :
                    ~CanUpsert(c, row, STARTED, j)

\* C10: when the row is absent or older than S, whatever its status and
\* writer, should_try_to_acquire is true, can_upsert accepts every client's
\* STARTED candidate, an acquire the store answers commits and puts the client
\* in its critical section; and a start() that returns after its release has
\* left the row DONE under its own uuid.
C10_StalenessOverrides ==
    /\ \A s \in MutexStatus : \A w \in Clients : \A a \in (S + 1) .. AgeCap(cfg) :
          \A c \in Clients : \A j \in JitterInSecs(cfg) :
              LET state == [status |-> s, update_client_uuid |-> w, age |-> a]
              IN  ShouldTryToAcquireMutex(state, j) /\ CanUpsert(c, state, STARTED, j)
    /\ OlderThanS =>
          \A c \in Clients : \A j \in JitterInSecs(cfg) :
              /\ ShouldTryToAcquireMutex(row, j)
              /\ CanUpsert(c, row, STARTED, j)
              /\ pc[c] = "acquire" =>
                    ~ENABLED (/\ AcquireMutex(c, "ok", j)
                              /\ ~(pc'[c] = "cs" /\ row' = CommittedState(c, STARTED)))
    /\ \A c \in Clients : \A j \in JitterInSecs(cfg) :
          pc[c] = "release" =>
              ~ENABLED (/\ ReleaseMutex(c, "ok", j)
                        /\ pc'[c] = "returned"
                        /\ row' # CommittedState(c, DONE))

\* A client has run the critical section and returned, leaving its DONE row,
\* after taking over from a holder that crashed.
C10_Witness ==
    \E c \in Clients : \E d \in OtherClients(c) :
        pc[d] = "crashed" /\ pc[c] = "returned" /\ RowIs(DONE, c) /\ row.age = 0

----------------------------------------------------------------------------
(* The admitted violation and the scenarios of start() *)

\* C11: when holder A has stayed in its critical section longer than its
\* lease plus the largest jitter, its STARTED row is stale and another client
\* B is about to acquire, B's acquire commits whatever its jitter and both A
\* and B are then inside execute_critical_section.
C11_OverrunHolderIsJoined ==
    \A a \in Clients : \A b \in OtherClients(a) :
        (/\ pc[a] = "cs" /\ RowIs(STARTED, a)
         /\ held[a] > T + MaxJitter /\ row.age > S
         /\ pc[b] = "acquire")
        => \A j \in JitterInSecs(cfg) :
              /\ ENABLED (/\ AcquireMutex(b, "ok", j)
                          /\ row' = CommittedState(b, STARTED)
                          /\ pc'[a] = "cs" /\ pc'[b] = "cs")
              /\ ~ENABLED (/\ AcquireMutex(b, "ok", j)
                           /\ ~(pc'[a] = "cs" /\ pc'[b] = "cs"))

\* Two clients of distinct client_uuid are inside execute_critical_section:
\* the first has overrun its lease and the second has just committed its
\* STARTED row over the first's.
C11_Witness ==
    \E a \in Clients : \E b \in OtherClients(a) :
        /\ pc[a] = "cs" /\ held[a] > T + MaxJitter
        /\ pc[b] = "cs" /\ held[b] = 0 /\ RowIs(STARTED, b) /\ row.age = 0

\* The record of a start() that has called is_mutex_needed n times,
\* read_table_rows r times, conditional_upsert_table_row u times,
\* read_in_transaction x times and execute_critical_section e times.
Calls(n, r, u, x, e) ==
    [is_mutex_needed |-> n, read_table_rows |-> r,
     conditional_upsert_table_row |-> u, read_in_transaction |-> x,
     execute_critical_section |-> e]

\* Client c is the recorded client and no other client has called start().
Alone(c) == probe = c /\ \A d \in OtherClients(c) : pc[d] = "idle"

\* The step A can be taken, and taking it always gives P.
StepGives(A, P) == ENABLED A /\ ~ENABLED (A /\ ~P)

\* C12: cold acquire.  With the row absent and no other client, when the
\* table answers, is_mutex_needed returns true and the critical section
\* returns, start() goes step by step through: one call of is_mutex_needed,
\* one snapshot read, a committed STARTED upsert, one call of
\* execute_critical_section, a committed DONE upsert (two conditional upserts
\* with one in-transaction read each), and returns normally with the row
\* DONE under the caller's uuid.
C12_ColdAcquire ==
    \A c \in Clients : Alone(c) =>
        /\ (pc[c] \in {"idle", "returned", "raised"} /\ row = NoRow) =>
              StepGives(Start(c, TRUE),
                        pc'[c] = "check" /\ called'[c] = NoCalls /\ row' = NoRow)
        /\ (pc[c] = "check" /\ called[c] = NoCalls /\ row = NoRow) =>
              StepGives(LoopCondition(c, "true"),
                        /\ pc'[c] = "read" /\ row' = NoRow
                        /\ called'[c] = Calls(1, 0, 0, 0, 0))
        /\ (pc[c] = "read" /\ called[c] = Calls(1, 0, 0, 0, 0) /\ row = NoRow) =>
              \A j \in JitterInSecs(cfg) :
                  StepGives(ReadState(c, "ok", j),
                            /\ pc'[c] = "acquire" /\ row' = NoRow
                            /\ called'[c] = Calls(1, 1, 0, 0, 0))
        /\ (pc[c] = "acquire" /\ called[c] = Calls(1, 1, 0, 0, 0) /\ row = NoRow) =>
              \A j \in JitterInSecs(cfg) :
                  StepGives(AcquireMutex(c, "ok", j),
                            /\ pc'[c] = "cs" /\ row' = CommittedState(c, STARTED)
                            /\ called'[c] = Calls(1, 1, 1, 1, 1))
        /\ (pc[c] = "cs" /\ called[c] = Calls(1, 1, 1, 1, 1) /\ RowIs(STARTED, c)) =>
              StepGives(ExecuteCriticalSection(c, TRUE),
                        /\ pc'[c] = "release" /\ row' = row
                        /\ called'[c] = Calls(1, 1, 1, 1, 1))
        /\ (pc[c] = "release" /\ called[c] = Calls(1, 1, 1, 1, 1) /\ RowIs(STARTED, c)) =>
              \A j \in JitterInSecs(cfg) :
                  StepGives(ReleaseMutex(c, "ok", j),
                            /\ pc'[c] = "returned" /\ exc'[c] = NoException
                            /\ row' = CommittedState(c, DONE)
                            /\ called'[c] = Calls(1, 1, 2, 2, 1))

\* The only client has returned from its start(), with the calls of a cold
\* acquire recorded and its DONE row just written.
C12_Witness ==
    \E c \in Clients :
        /\ Alone(c) /\ pc[c] = "returned" /\ exc[c] = NoException
        /\ called[c] = Calls(1, 1, 2, 2, 1)
        /\ RowIs(DONE, c) /\ row.age = 0

\* C13: a start() that has returned without acquiring, after snapshot reads
\* in mutex_max_retries cycles none of which led to the critical section, has
\* called is_mutex_needed exactly mutex_max_retries times and
\* execute_critical_section not at all.
C13_NeverAcquiringCallsHookMaxRetriesTimes ==
    \A c \in Clients :
        (/\ probe = c /\ pc[c] = "returned"
         /\ called[c].read_table_rows = cfg.mutex_max_retries
         /\ called[c].execute_critical_section = 0)
        => called[c].is_mutex_needed = cfg.mutex_max_retries

\* C14: when the first call of is_mutex_needed in a start() returns false,
\* start() returns normally at once: is_mutex_needed has been called once,
\* there has been no snapshot read, no conditional upsert and no call of
\* execute_critical_section, and the row is as it was.
C14_NotNeededReturnsAtOnce ==
    \A c \in Clients : probe = c =>
        /\ (pc[c] = "check" /\ called[c] = NoCalls) =>
              StepGives(LoopCondition(c, "false"),
                        /\ pc'[c] = "returned" /\ exc'[c] = NoException
                        /\ called'[c] = Calls(1, 0, 0, 0, 0)
                        /\ row' = row)
        /\ (pc[c] = "returned" /\ called[c].is_mutex_needed = 1
                /\ called[c].execute_critical_section = 0) =>
              called[c] = Calls(1, 0, 0, 0, 0)

\* A start() has returned after one call of is_mutex_needed and nothing
\* else, while the row another client holds as STARTED is in the table.
C14_Witness ==
    \E c \in Clients : \E d \in OtherClients(c) :
        /\ probe = c /\ pc[c] = "returned" /\ called[c] = Calls(1, 0, 0, 0, 0)
        /\ pc[d] = "cs" /\ RowIs(STARTED, d)

----------------------------------------------------------------------------
(* Errors *)

\* The last exception of a chain of causes: the error it all started with.
RootCause(chain) == chain[Len(chain)]

\* C15: when execute_critical_section raises in a client that has acquired,
\* the client goes on to the FAILED upsert with the row untouched; that
\* upsert, when the row is still the client's STARTED row and the table
\* answers, commits {status=FAILED, update_client_uuid=the client}, and
\* start() ends with a SpannerMutexError whose chain of causes ends in the
\* error of the critical section.  Whatever the upsert does, start() ends
\* with a SpannerMutexError and does not return normally.
C15_CriticalSectionFailure ==
    \A c \in Clients :
        /\ pc[c] = "cs" =>
              StepGives(ExecuteCriticalSection(c, FALSE),
                        /\ pc'[c] = "release_error" /\ row' = row
                        /\ exc'[c] = <<SpannerMutexError, HookError>>)
        /\ (pc[c] = "release_error" /\ RootCause(exc[c]) = HookError) =>
              \A j \in JitterInSecs(cfg) :
                  /\ \A trs \in TrsOutcomes :
                        StepGives(ReleaseMutexError(c, trs, j),
                                  /\ pc'[c] = "raised"
                                  /\ Head(exc'[c]) = SpannerMutexError)
                  /\ RowIs(STARTED, c) =>
                        StepGives(ReleaseMutexError(c, "ok", j),
                                  /\ row' = CommittedState(c, FAILED)
                                  /\ exc'[c] = <<SpannerMutexError, SpannerMutexError, HookError>>)

\* A start() has ended with the SpannerMutexError chained to the error of
\* its critical section, and its FAILED row has just been written.
C15_Witness ==
    \E c \in Clients :
        /\ pc[c] = "raised" /\ RowIs(FAILED, c) /\ row.age = 0
        /\ exc[c] = <<SpannerMutexError, SpannerMutexError, HookError>>

\* Whether a row is open to acquisition as the protocol states it: absent,
\* older than S, or neither DONE nor STARTED and older than T + jitter.
AcquirableAsStated(state, jitter) ==
    \/ state = NoRow
    \/ state.age > S
    \/ state.status \notin {DONE, STARTED} /\ state.age > T + jitter

\* C16: when holder A comes to its release after a critical section that
\* succeeded, and the row is by then a peer's row that is not open to
\* acquisition, A's DONE upsert is refused and leaves the peer's row as it
\* is, the FAILED upsert that follows is refused as well, and A's start()
\* ends with a SpannerMutexError.
C16_ReleaseRejectedAfterTakeover ==
    \A a \in Clients : \A j \in JitterInSecs(cfg) :
        (/\ row # NoRow /\ row.update_client_uuid # a
         /\ ~AcquirableAsStated(row, j))
        => /\ pc[a] = "release" =>
                 StepGives(ReleaseMutex(a, "ok", j),
                           /\ pc'[a] = "release_error" /\ row' = row
                           /\ exc'[a] = <<SpannerMutexError>>)
           /\ (pc[a] = "release_error" /\ exc[a] = <<SpannerMutexError>>) =>
                 StepGives(ReleaseMutexError(a, "ok", j),
                           /\ pc'[a] = "raised" /\ row' = row
                           /\ Head(exc'[a]) = SpannerMutexError)

\* C17: a start() that has ended with an exception has ended with a
\* SpannerMutexError; in particular the failure of the table during the
\* snapshot read of the row surfaces as a SpannerMutexError whose cause it
\* is, never as another kind of error.
C17_ReadFailureSurfacesAsMutexError ==
    \A c \in Clients :
        pc[c] = "raised" => Head(exc[c]) = SpannerMutexError

\* What "did not acquire" is for client c: it is in time.sleep for the whole
\* wait time, with no exception, the row and the retry counter as they were,
\* and execute_critical_section not called.
DidNotAcquire(c) ==
    /\ pc'[c] = "sleep" /\ sleepLeft'[c] = cfg.mutex_wait_time_in_secs
    /\ exc'[c] = NoException /\ row' = row /\ retries'[c] = retries[c]
    /\ called'[c].execute_critical_section = called[c].execute_critical_section
    /\ called'[c].conditional_upsert_table_row = called[c].conditional_upsert_table_row + 1

\* C18: an acquire whose conditional upsert fails in the table, or whose
\* predicate says no, is "did not acquire": start() does not fail and does
\* not call execute_critical_section, it sleeps, and after the sleep it is
\* back at the loop condition with the retry counter one higher.
C18_FailedAcquireIsRetried ==
    \A c \in Clients : probe = c =>
        /\ pc[c] = "acquire" =>
              \A j \in JitterInSecs(cfg) :
                  /\ StepGives(AcquireMutex(c, "error", j), DidNotAcquire(c))
                  /\ ~CanUpsert(c, row, STARTED, j) =>
                        StepGives(AcquireMutex(c, "ok", j), DidNotAcquire(c))
        /\ pc[c] = "sleep" =>
              /\ sleepLeft[c] = 0 => ENABLED Sleep(c)
              /\ ~ENABLED (/\ Sleep(c)
                           /\ ~(/\ pc'[c] = "check" /\ retries'[c] = retries[c] + 1
                                /\ row' = row /\ called'[c] = called[c]))

\* A client sleeps after an acquire that did not commit: it has made a
\* conditional upsert in this start() and has not been in the critical
\* section, which the other client is in.
C18_Witness ==
    \E c \in Clients : \E d \in OtherClients(c) :
        /\ probe = c /\ pc[c] = "sleep"
        /\ called[c].conditional_upsert_table_row = 1
        /\ called[c].execute_critical_section = 0
        /\ pc[d] = "cs" /\ RowIs(STARTED, d)

\* C19: when is_mutex_needed raises, at whichever evaluation of the loop
\* condition, start() ends with a SpannerMutexError whose cause is the error
\* of the hook, and that evaluation makes no snapshot read, no conditional
\* upsert and no call of execute_critical_section, and leaves the row as it
\* is.
C19_HookFailureEndsStart ==
    \A c \in Clients :
        (probe = c /\ pc[c] = "check") =>
            StepGives(LoopCondition(c, "raise"),
                      /\ pc'[c] = "raised"
                      /\ exc'[c] = <<SpannerMutexError, HookError>>
                      /\ row' = row
                      /\ called'[c] = [called[c] EXCEPT
                            !.is_mutex_needed = called[c].is_mutex_needed + 1])

\* A start() has ended with the SpannerMutexError raised from the error of
\* is_mutex_needed, at the second evaluation of the loop condition.
C19_Witness ==
    \E c \in Clients :
        /\ probe = c /\ pc[c] = "raised"
        /\ exc[c] = <<SpannerMutexError, HookError>>
        /\ called[c].is_mutex_needed = 2 /\ called[c].read_table_rows = 1

\* C20: can_upsert is true whenever the row read in the transaction was
\* written by the calling client and the candidate's status is not the row's,
\* whatever the row's age (every age the table's row takes) and status; so
\* the release of a client whose own STARTED row is still in the table
\* commits, and so does its acquire over its own DONE or FAILED row.
C20_OwnRowStatusChangeAccepted ==
    /\ row # NoRow =>
          \A c \in Clients : \A s \in MutexStatus :
              \A candidate \in MutexStatus \ {s} : \A j \in JitterInSecs(cfg) :
                  CanUpsert(c, [status |-> s, update_client_uuid |-> c, age |-> row.age],
                            candidate, j)
    /\ \A c \in Clients : \A j \in JitterInSecs(cfg) :
          /\ (pc[c] = "release" /\ RowIs(STARTED, c)) =>
                StepGives(ReleaseMutex(c, "ok", j),
                          pc'[c] = "returned" /\ row' = CommittedState(c, DONE))
          /\ (pc[c] = "acquire" /\ row.update_client_uuid = c
                  /\ row.status \in {DONE, FAILED}) =>
                StepGives(AcquireMutex(c, "ok", j),
                          pc'[c] = "cs" /\ row' = CommittedState(c, STARTED))

\* A client is about to release over its own STARTED row, which is older
\* than S, and the release commits.
C20_Witness ==
    \E c \in Clients :
        /\ pc[c] = "release" /\ RowIs(STARTED, c) /\ row.age > S
        /\ ENABLED (ReleaseMutex(c, "ok", 0) /\ row' = CommittedState(c, DONE))

----------------------------------------------------------------------------
(* Contracts of the operations *)

\* C21: conditional_upsert_table_row, when the table answers, returns what
\* can_upsert says of the row read in its transaction, without raising; the
\* row is the candidate's exactly when that was true and is untouched when it
\* was false.  So a refused acquire leaves the row as it is and raises
\* nothing.
C21_ConditionalUpsertContract ==
    /\ \A c \in Clients : \A s \in MutexStatus : \A j \in JitterInSecs(cfg) :
          LET r == ConditionalUpsertTableRow(c, s, j, "ok")
          IN  /\ ~r.raised
              /\ r.result = CanUpsert(c, row, s, j)
              /\ r.row = IF r.result THEN CommittedState(c, s) ELSE row
    /\ \A c \in Clients : \A j \in JitterInSecs(cfg) :
          pc[c] = "acquire" =>
              StepGives(AcquireMutex(c, "ok", j),
                        IF CanUpsert(c, row, STARTED, j)
                        THEN row' = CommittedState(c, STARTED) /\ pc'[c] = "cs"
                        ELSE row' = row /\ pc'[c] = "sleep" /\ exc'[c] = NoException)

\* A client is about to make the conditional upsert of its acquire over the
\* fresh STARTED row of the holder, which can_upsert refuses: the upsert
\* returns false and the holder's row stays.
C21_Witness ==
    \E c \in Clients : \E d \in OtherClients(c) :
        /\ pc[c] = "acquire" /\ pc[d] = "cs" /\ RowIs(STARTED, d) /\ row.age <= T
        /\ ~ConditionalUpsertTableRow(c, STARTED, 0, "ok").result
        /\ ENABLED (AcquireMutex(c, "ok", 0) /\ row' = row)

\* C22: a call of status that the table answers returns UNKNOWN when there is
\* no row and the row's status otherwise, and changes nothing: the row is as
\* it was and no client has moved.
C22_StatusReadsOnly ==
    \A c \in Clients :
        pc[c] \in {"idle", "returned", "raised"} =>
            /\ StepGives(Status(c, "ok"),
                         /\ answer'.op = "status"
                         /\ row = NoRow => answer'.value = UNKNOWN
                         /\ row # NoRow => answer'.value = row.status
                         /\ row' = row /\ pc' = pc /\ called' = called)
            /\ StepGives(Status(c, "error"), row' = row /\ pc' = pc)

\* status has just returned STARTED to a client whose start() had ended,
\* while the other client holds the row.
C22_Witness ==
    \E c \in Clients : \E d \in OtherClients(c) :
        /\ pc[c] \in {"returned", "raised"}
        /\ answer = Answer("status", STARTED)
        /\ pc[d] = "cs" /\ RowIs(STARTED, d) /\ held[d] = 0

\* C23: validate returns True when the table is found, whatever
\* raise_if_invalid; when the lookup fails it raises SpannerMutexError if
\* raise_if_invalid is true and returns False if it is not; in no case is the
\* row written or a client moved.
C23_ValidateContract ==
    \A c \in Clients :
        pc[c] \in {"idle", "returned", "raised"} =>
            /\ \A raise_if_invalid \in BOOLEAN :
                  StepGives(Validate(c, raise_if_invalid, TRUE),
                            answer' = Answer("validate", "True")
                                /\ row' = row /\ pc' = pc)
            /\ StepGives(Validate(c, TRUE, FALSE),
                         answer' = Answer("validate", SpannerMutexError)
                             /\ row' = row /\ pc' = pc)
            /\ StepGives(Validate(c, FALSE, FALSE),
                         answer' = Answer("validate", "False")
                             /\ row' = row /\ pc' = pc)

\* validate has returned False, without raising, while a row is in the
\* table.
C23_Witness ==
    answer = Answer("validate", "False") /\ row # NoRow

\* Constructor arguments around the limits of the config check: the lease or
\* the retry time the larger, the staleness below, at and above it.
ConfigArgsAtLimits ==
    [mutex_ttl_in_secs : {10, 40},
     mutex_staleness_in_secs : {30, 31, 40, 41},
     mutex_wait_time_in_secs : {1, 6},
     mutex_max_retries : {5}]

\* MutexConfig(...) returns an object rather than raising ValueError.
Constructs(c) == FieldValidators(c) /\ AttrsPostInit(c)

\* C24: constructing a MutexConfig whose mutex_staleness_in_secs is not larger
\* than max(mutex_ttl_in_secs, mutex_max_retries * mutex_wait_time_in_secs)
\* raises, and every config that was constructed, the one the clients run
\* with included, has its staleness larger than that maximum.
C24_ConfigInvariant ==
    /\ \A c \in ConfigArgsAtLimits :
          LET limit == Max(c.mutex_ttl_in_secs,
                           c.mutex_max_retries * c.mutex_wait_time_in_secs)
          IN  /\ c.mutex_staleness_in_secs <= limit => ~Constructs(c)
              /\ Constructs(c) => c.mutex_staleness_in_secs > limit
    /\ cfg.mutex_staleness_in_secs
          > Max(cfg.mutex_ttl_in_secs, cfg.mutex_max_retries * cfg.mutex_wait_time_in_secs)

\* The clients run with a constructed config while, among the arguments at
\* the limits, some pass every field validator and are refused for a
\* staleness equal to the retry time, and some are constructed with the
\* retry time above the lease.
C24_Witness ==
    /\ Constructs(cfg) /\ row # NoRow
    /\ \E c \in ConfigArgsAtLimits :
          /\ FieldValidators(c) /\ ~Constructs(c)
          /\ c.mutex_staleness_in_secs = c.mutex_max_retries * c.mutex_wait_time_in_secs
    /\ \E c \in ConfigArgsAtLimits :
          /\ Constructs(c)
          /\ c.mutex_max_retries * c.mutex_wait_time_in_secs > c.mutex_ttl_in_secs

\* What _should_try_to_acquire_mutex, as implemented, opens of another
\* client's row: a row older than S, or a row neither DONE nor STARTED that
\* is younger than T + jitter.
OpenAsImplemented(state, jitter) ==
    \/ state.age > S
    \/ state.status \notin {DONE, STARTED} /\ state.age < T + jitter

----------------------------------------------------------------------------
(* The row over time *)

\* A step of client c that commits a write.
Writes(c) ==
    \E j \in 0..MaxJitter :
        AcquireMutex(c, "ok", j) \/ ReleaseMutex(c, "ok", j)
        \/ ReleaseMutexError(c, "ok", j)

\* C26: the stored update_time_utc is the commit timestamp of the write that
\* produced the row, never the clock value the client put in the candidate
\* CommitLatency seconds earlier: a committed write leaves a row of age 0
\* whatever the candidate carried, a holder's STARTED row is exactly as old as
\* its stay in the critical section, and no committed write moves
\* update_time_utc backwards (the new row is never older than the one it
\* replaces).
C26_UpdateTimeIsCommitTimestamp ==
    /\ \A c \in Clients, s \in MutexStatus :
          /\ CreateState(client_uuid[c], s).update_time_utc
                = NaiveDatetime(0 - CommitLatency)
          /\ CommittedState(c, s).age = 0
    /\ \A c \in Clients :
          /\ (pc[c] = "cs" /\ row.status = STARTED /\ row.update_client_uuid = c)
                => row.age = held[c]
          /\ ~ENABLED (Writes(c) /\ row' # row /\ row'.age # 0)
          /\ ~ENABLED (Writes(c) /\ row # NoRow /\ row'.age > row.age)

\* A holder whose STARTED row has aged while it is in the critical section,
\* and which can commit its release over it.
C26_Witness ==
    \E c \in Clients :
        /\ pc[c] = "release"
        /\ row.status = STARTED /\ row.update_client_uuid = c /\ row.age > 0
        /\ ENABLED (Writes(c) /\ row' = CommittedState(c, DONE))

\* C27: the table holds one row for the mutex, the one under the key
\* mutex_uuid.  While it is absent the only step that creates it is an acquire
\* committing its STARTED row; once it exists no operation, status and
\* validate included, makes it absent again: whatever step changes it leaves a
\* row in its place.
C27_RowIsNeverDeleted ==
    /\ row = NoRow =>
          ~ENABLED (/\ (Next \/ NextOperations)
                    /\ row' # NoRow
                    /\ ~\E c \in Clients :
                           /\ pc[c] = "acquire" /\ pc'[c] = "cs"
                           /\ row' = CommittedState(c, STARTED))
    /\ row # NoRow => ~ENABLED ((Next \/ NextOperations) /\ row' = NoRow)
    /\ \A c \in Clients : pc[c] \in {"cs", "release", "release_error"} => row # NoRow

\* The row exists and a holder commits its release over it.
C27_Witness ==
    \E c \in Clients :
        /\ pc[c] = "release" /\ row # NoRow
        /\ ENABLED (ReleaseMutex(c, "ok", 0) /\ row' = CommittedState(c, DONE))

\* The step rewrites the row: a committed write, which leaves a row of age 0.
Rewritten == row' # row /\ row'.age = 0

\* C28: _is_state_stale of the absent row is true; of a row written at the
\* present instant it is false, whatever the status and the writer; and it is
\* monotone in time: a stale row one second older is stale, and from a state
\* whose row is stale every step that does not rewrite the row leads to a
\* state whose row is stale.
C28_IsStateStaleMonotone ==
    /\ IsStateStale(NoRow)
    /\ \A c \in Clients, s \in MutexStatus : ~IsStateStale(CommittedState(c, s))
    /\ \A c \in Clients, s \in MutexStatus, age \in 0 .. (AgeCap(cfg) - 1) :
          IsStateStale([status |-> s, update_client_uuid |-> c, age |-> age])
             => IsStateStale([status |-> s, update_client_uuid |-> c, age |-> age + 1])
    /\ IsStateStale(row) =>
          ~ENABLED ((Next \/ NextOperations) /\ ~Rewritten /\ ~IsStateStale(row'))

\* A row that has just become stale and over which a second passes.
C28_Witness ==
    /\ row # NoRow /\ IsStateStale(row) /\ row.age = S + 1
    /\ ENABLED (Tick /\ IsStateStale(row'))

----------------------------------------------------------------------------
(* Controllers sharing one client_uuid *)

\* C29: when the controllers share their client_uuid, can_upsert takes a row
\* written by the other controller for the caller's own.  While controller a
\* is inside execute_critical_section and its STARTED row is in the table, a
\* release of controller b (DONE or FAILED) commits over that row however
\* fresh it is; and while a is inside, an acquire of b commits over a DONE or
\* FAILED row carrying the shared uuid, however fresh, after which a and b are
\* both inside execute_critical_section.  An acquire over a STARTED row not
\* older than S is still refused (same uuid, same status: the guard decides).
C29_SharedUuidBreaksSafety ==
    \A a \in Clients : \A b \in OtherClients(a) : \A j \in 0..MaxJitter :
        /\ client_uuid[a] = client_uuid[b]
        /\ (pc[a] = "cs" /\ row.status = STARTED /\ pc[b] = "release") =>
              StepGives(ReleaseMutex(b, "ok", j),
                        row'.status = DONE /\ pc'[b] = "returned" /\ pc'[a] = "cs")
        /\ (pc[a] = "cs" /\ row.status = STARTED /\ pc[b] = "release_error") =>
              StepGives(ReleaseMutexError(b, "ok", j),
                        row'.status = FAILED /\ pc'[a] = "cs")
        /\ (pc[a] = "cs" /\ row.status \in {DONE, FAILED} /\ pc[b] = "acquire") =>
              StepGives(AcquireMutex(b, "ok", j),
                        pc'[a] = "cs" /\ pc'[b] = "cs" /\ row'.age = 0)
        /\ (pc[a] = "cs" /\ row.status = STARTED /\ row.age <= S /\ pc[b] = "acquire") =>
              StepGives(AcquireMutex(b, "ok", j), pc'[b] = "sleep" /\ row' = row)

\* Both controllers are inside execute_critical_section, neither for longer
\* than the lease, and neither has crashed.
C29_Witness ==
    /\ client_uuid = SharedUuid
    /\ \A c \in Clients : pc[c] = "cs" /\ held[c] <= T

----------------------------------------------------------------------------
(* The codec *)

\* C30: decoding gives back the state that was encoded.  from_spanner_row of
\* to_spanner_row(s, with_commit_ts=False) equals s, and when the row was
\* encoded with the placeholder and the store put the timestamp t in its
\* place, from_spanner_row gives s with update_time_utc = t; for every status,
\* UNKNOWN included, and every update_time_utc a MutexState can hold.
C30_CodecRoundTrip ==
    answer.op = "from_spanner_row" =>
        answer.value.result =
            IF answer.value.with_commit_ts
            THEN [answer.value.state EXCEPT
                     !.update_time_utc = answer.value.spanner_row.update_time_utc]
            ELSE answer.value.state

----------------------------------------------------------------------------
(* The loop of start() *)

\* The fair program with the calls of one client recorded.
SpecCalledLive ==
    /\ InitCalled
    /\ [][NextLive]_vars
    /\ WF_vars(Tick)
    /\ \A c \in Clients : WF_vars(ClientStep(c))

\* start() is running in client c.
Running(c) ==
    pc[c] \in {"check", "read", "acquire", "cs", "release", "release_error", "sleep"}

\* Client c is still in the loop: no critical section entered in this start().
InLoop(c) == pc[c] \in {"check", "read", "acquire", "sleep"}

\* C31: a start() whose hooks and table calls return ends (returns or raises;
\* a process that dies in the critical section aside), and it goes through at
\* most mutex_max_retries cycles: it has slept at most mutex_max_retries times,
\* read the row at most mutex_max_retries times and, while in the loop, tried
\* to acquire at most mutex_max_retries times.
C31_StartTerminates ==
    /\ [](\A c \in Clients :
            /\ retries[c] <= cfg.mutex_max_retries
            /\ probe = c =>
                  /\ called[c].read_table_rows <= cfg.mutex_max_retries
                  /\ Running(c) => called[c].read_table_rows <= retries[c] + 1
                  /\ InLoop(c) =>
                        called[c].conditional_upsert_table_row
                            <= called[c].read_table_rows)
    /\ Running(probe) ~> pc[probe] \in {"returned", "raised", "crashed"}

\* The recorded client is in its last cycle: it has slept mutex_max_retries - 1
\* times and reads the row for the mutex_max_retries-th time.
C31_Witness ==
    \E c \in Clients :
        /\ probe = c /\ pc[c] = "acquire"
        /\ retries[c] = cfg.mutex_max_retries - 1
        /\ called[c].read_table_rows = cfg.mutex_max_retries

\* C32: of the clients that passed the filter and stand before their acquire,
\* one commits; every other one, whose transaction comes after the winner's
\* while the winner's STARTED row is not older than S, reads that row, is
\* refused and goes to sleep, leaving the row as it is.  Two racing acquires
\* never both commit: the row the winner leaves refuses the STARTED candidate
\* of every other client.
C32_RacingAcquirers ==
    \A a \in Clients : \A b \in OtherClients(a) : \A j \in JitterInSecs(cfg) :
        /\ (pc[a] = "acquire" /\ pc[b] = "acquire") =>
              /\ ~CanUpsert(b, CommittedState(a, STARTED), STARTED, j)
              /\ ~ENABLED (/\ AcquireMutex(a, "ok", j)
                           /\ pc'[a] = "cs"
                           /\ (ENABLED (AcquireMutex(b, "ok", j) /\ pc'[b] = "cs"))')
        /\ (pc[b] = "acquire" /\ RowIs(STARTED, a) /\ row.age <= S) =>
              StepGives(AcquireMutex(b, "ok", j), pc'[b] = "sleep" /\ row' = row)

\* Both clients passed the filter on the absent row; one has committed and is
\* in its critical section, the other is about to run its transaction.
C32_Witness ==
    \E a \in Clients : \E b \in OtherClients(a) :
        /\ pc[a] = "cs" /\ RowIs(STARTED, a) /\ row.age = 0
        /\ pc[b] = "acquire" /\ retries[a] = 0 /\ retries[b] = 0

\* C33: when the critical section has returned and the DONE upsert fails
\* (the table raises or the transaction refuses it), start() ends there with
\* a SpannerMutexError and the client attempts no further upsert; a client
\* attempts the FAILED upsert, and commits a FAILED row, only when its own
\* execute_critical_section raised.
C33_FailedReleaseWritesNothing ==
    \A c \in Clients : \A j \in JitterInSecs(cfg) :
        /\ pc[c] = "release" =>
              \A trs \in TrsOutcomes :
                  StepGives(ReleaseMutex(c, trs, j),
                            \/ pc'[c] = "returned"
                            \/ pc'[c] = "raised" /\ Head(exc'[c]) = SpannerMutexError)
        /\ pc[c] = "release_error" => RootCause(exc[c]) = HookError
        /\ ~ENABLED (/\ ReleaseMutexError(c, "ok", j)
                     /\ RootCause(exc[c]) # HookError
                     /\ row' = CommittedState(c, FAILED))

\* C34: within one start() execute_critical_section is called at most once:
\* when it returned, a committed DONE upsert ends start() without another
\* evaluation of the loop condition; when it raised, or the DONE upsert
\* failed, the FAILED upsert ends start() with an error whatever the table
\* answers and however many retries remain.
C34_CriticalSectionAtMostOnce ==
    \A c \in Clients :
        /\ probe = c => called[c].execute_critical_section <= 1
        /\ pc[c] = "cs" =>
              \A ok \in BOOLEAN :
                  StepGives(ExecuteCriticalSection(c, ok),
                            pc'[c] = IF ok THEN "release" ELSE "release_error")
        /\ pc[c] = "release" =>
              \A trs \in TrsOutcomes : \A j \in JitterInSecs(cfg) :
                  StepGives(ReleaseMutex(c, trs, j),
                            /\ pc'[c] \in {"returned", "release_error"}
                            /\ called'[c].is_mutex_needed = called[c].is_mutex_needed
                            /\ called'[c].execute_critical_section
                                  = called[c].execute_critical_section)
        /\ pc[c] = "release_error" =>
              \A trs \in TrsOutcomes : \A j \in JitterInSecs(cfg) :
                  StepGives(ReleaseMutexError(c, trs, j),
                            /\ pc'[c] = "raised"
                            /\ called'[c].execute_critical_section
                                  = called[c].execute_critical_section)

\* A start() has ended in its first cycle with the error of its critical
\* section, which it called once, all further retries unused.
C34_Witness ==
    \E c \in Clients :
        /\ probe = c /\ pc[c] = "raised" /\ RootCause(exc[c]) = HookError
        /\ called[c].is_mutex_needed = 1
        /\ called[c].execute_critical_section = 1
        /\ cfg.mutex_max_retries > 1

\* C35: the only step by which a client comes to be inside
\* execute_critical_section is its own acquire committing, in the same loop
\* cycle, and right after that step the row is its STARTED row.  An acquire
\* that the transaction refuses or that the table fails leaves the row as it
\* was and sends the client to the sleep of that cycle.
C35_EntryOnlyAfterOwnCommit ==
    /\ [][\A c \in Clients :
             (pc[c] # "cs" /\ pc'[c] = "cs") =>
                 /\ pc[c] = "acquire"
                 /\ retries'[c] = retries[c]
                 /\ row' = CommittedState(c, STARTED)
                 /\ \E j \in JitterInSecs(cfg) : CanUpsert(c, row, STARTED, j)]_vars
    /\ [](\A c \in Clients :
            /\ pc[c] = "acquire" =>
                  \A j \in JitterInSecs(cfg) :
                      /\ StepGives(AcquireMutex(c, "error", j),
                                   pc'[c] = "sleep" /\ row' = row /\ retries'[c] = retries[c])
                      /\ ~CanUpsert(c, row, STARTED, j) =>
                            StepGives(AcquireMutex(c, "ok", j),
                                      pc'[c] = "sleep" /\ row' = row /\ retries'[c] = retries[c])
            /\ (pc[c] = "cs" /\ held[c] = 0 /\ row.age = 0) => RowIs(STARTED, c))

\* A client has just entered the critical section in a later cycle of its
\* loop, after an earlier acquire of the same start() was turned down.
C35_Witness ==
    \E c \in Clients :
        /\ pc[c] = "cs" /\ held[c] = 0 /\ RowIs(STARTED, c) /\ row.age = 0
        /\ retries[c] >= 1

\* C36: a start() that ends because its retries are exhausted, the hook
\* still asking for the mutex and the critical section not executed, ends
\* with a message of critical severity, not with the informational one.
C36_MaxRetriesReportedCritical ==
    \A c \in Clients :
        (pc[c] = "check" /\ retries[c] = cfg.mutex_max_retries) =>
            StepGives(LoopCondition(c, "true"),
                      pc'[c] = "returned" /\ log'[c] = CRITICAL)

\* The row is a STARTED or DONE row of another client, written at the moment
\* of the first snapshot read of c's recorded start(); since then only the
\* sleeps of that start() have taken time, and every read has led to a sleep.
WaitingOnFreshRow(c) ==
    /\ probe = c /\ pc[c] \in {"check", "read", "sleep"}
    /\ \E d \in OtherClients(c) : RowIs(STARTED, d) \/ RowIs(DONE, d)
    /\ row.age = retries[c] * cfg.mutex_wait_time_in_secs
                   + (IF pc[c] = "sleep"
                      THEN cfg.mutex_wait_time_in_secs - sleepLeft[c] ELSE 0)
    /\ called[c].read_table_rows = retries[c] + (IF pc[c] = "sleep" THEN 1 ELSE 0)
    /\ called[c].conditional_upsert_table_row = 0

\* C37: every config that constructs has S > mutex_max_retries *
\* mutex_wait_time_in_secs.  So a start() whose first read sees a STARTED or
\* DONE row of another client at age 0, the row not written again and time
\* passing only in the sleeps, finds the row not stale at every read and
\* sleeps; after mutex_max_retries cycles it returns, the row still not
\* stale, without an acquire attempt and without executing.
C37_FreshRowOutlastsRetries ==
    /\ \A a \in [mutex_ttl_in_secs : {10, 11},
                 mutex_staleness_in_secs : 11 .. 13,
                 mutex_wait_time_in_secs : {1, 2},
                 mutex_max_retries : {5, 6}] :
          (FieldValidators(a) /\ AttrsPostInit(a)) =>
              a.mutex_staleness_in_secs
                  > a.mutex_max_retries * a.mutex_wait_time_in_secs
    /\ \A c \in Clients :
          WaitingOnFreshRow(c) =>
              /\ ~IsStateStale(row)
              /\ pc[c] = "read" =>
                    \A j \in JitterInSecs(cfg) :
                        StepGives(ReadState(c, "ok", j),
                                  pc'[c] = "sleep" /\ row' = row)
              /\ (pc[c] = "check" /\ retries[c] = cfg.mutex_max_retries) =>
                    \A needed \in {"true", "false"} :
                        StepGives(LoopCondition(c, needed),
                                  /\ pc'[c] = "returned" /\ row' = row
                                  /\ called'[c].conditional_upsert_table_row = 0
                                  /\ called'[c].execute_critical_section = 0)

\* The start() has read the other client's row mutex_max_retries times, slept
\* as often, and returned without an acquire attempt, the row not yet stale.
C37_Witness ==
    \E c \in Clients : \E d \in OtherClients(c) :
        /\ probe = c /\ pc[c] = "returned" /\ RowIs(STARTED, d)
        /\ row.age = cfg.mutex_max_retries * cfg.mutex_wait_time_in_secs
        /\ called[c].read_table_rows = cfg.mutex_max_retries
        /\ called[c].is_mutex_needed = cfg.mutex_max_retries + 1
        /\ called[c].conditional_upsert_table_row = 0
        /\ called[c].execute_critical_section = 0

\* The row was last written under client c's client_uuid with this status.
OwnRow(c, status) ==
    row # NoRow /\ row.update_client_uuid = client_uuid[c] /\ row.status = status

\* C38: for a candidate of the status the row already has, the row being the
\* client's own, can_upsert is _should_try_to_acquire_mutex of the row.  So a
\* STARTED upsert over the client's own STARTED row, and a DONE upsert over
\* its own DONE row, are refused while the row is not older than S, leaving
\* the row as it was.
C38_NoRecommitOfOwnStatus ==
    \A c \in Clients : \A j \in JitterInSecs(cfg) :
        /\ \A status \in MutexStatus :
              OwnRow(c, status) =>
                  CanUpsert(c, row, status, j) = ShouldTryToAcquireMutex(row, j)
        /\ \A status \in {STARTED, DONE} :
              (OwnRow(c, status) /\ row.age <= S) => ~CanUpsert(c, row, status, j)
        /\ (pc[c] = "acquire" /\ OwnRow(c, STARTED) /\ row.age <= S) =>
              StepGives(AcquireMutex(c, "ok", j), pc'[c] = "sleep" /\ row' = row)
        /\ (pc[c] = "release" /\ OwnRow(c, DONE) /\ row.age <= S) =>
              StepGives(ReleaseMutex(c, "ok", j),
                        pc'[c] = "release_error" /\ row' = row)

\* A controller's DONE upsert was refused over a fresh DONE row carrying its
\* own client_uuid.
C38_Witness ==
    \E c \in Clients :
        /\ pc[c] = "release_error" /\ exc[c] = <<SpannerMutexError>>
        /\ OwnRow(c, DONE) /\ row.age = 0

\* The candidate _create_state builds for a client_uuid and a status, and the
\* row submitted for it, carry the key of the mutex and that client_uuid.
CandidatesCarryWriter ==
    \A uuid \in Clients : \A status \in MutexStatus :
        LET state == CreateState(uuid, status)
            submitted == ToSpannerRow(state, TRUE)
        IN  /\ state.uuid = UUID(MutexUuid)
            /\ state.update_client_uuid = UUID(uuid)
            /\ state.update_client_display_name = Str(uuid)
            /\ submitted.uuid = Str(MutexUuid)
            /\ submitted.update_client_uuid = Str(uuid)
            /\ submitted.update_client_display_name = Str(uuid)

\* C39: the candidate a client builds for any status, the row it submits and
\* the row a commit of it leaves carry the key of the mutex as uuid, the
\* client's client_uuid as update_client_uuid and its display name as
\* update_client_display_name.  A step changes the row, other than by letting
\* it age, only by being a committing upsert of some client, and the row then
\* names that client: the row's update_client_uuid is always the client
\* whose write committed last.
C39_RowNamesLastWriter ==
    /\ [][(row' # row /\ row'.age <= row.age) =>
             \E c \in Clients :
                 /\ pc[c] \in {"acquire", "release", "release_error"}
                 /\ pc'[c] # pc[c]
                 /\ row'.update_client_uuid = client_uuid[c]
                 /\ row'.age = 0]_vars
    /\ [](/\ CandidatesCarryWriter
          /\ \A c \in Clients : \A status \in MutexStatus :
                CommittedState(c, status).update_client_uuid = client_uuid[c]
          /\ row # NoRow => \E c \in Clients : row.update_client_uuid = client_uuid[c])

\* The row named one client, whose start() ended with its FAILED write, and
\* now names the client that has just committed its STARTED row over it.
C39_Witness ==
    \E c \in Clients : \E d \in OtherClients(c) :
        /\ pc[c] = "cs" /\ RowIs(STARTED, client_uuid[c]) /\ row.age = 0
        /\ pc[d] = "raised"
        /\ exc[d] = <<SpannerMutexError, SpannerMutexError, HookError>>

\* C40: start() validates before anything else.  When the table lookup
\* fails, start() ends with a SpannerMutexError chained to the error of the
\* lookup, the row as it was, and no call of is_mutex_needed, of
\* execute_critical_section or of a read or upsert of the row; when it
\* succeeds the loop condition is the next thing evaluated.
C40_ValidateBeforeLoop ==
    \A c \in Clients :
        /\ pc[c] \in {"idle", "returned", "raised"} =>
              /\ StepGives(Start(c, FALSE),
                           /\ pc'[c] = "raised"
                           /\ exc'[c] = <<SpannerMutexError, SpannerError>>
                           /\ row' = row
                           /\ probe = c => called'[c] = NoCalls)
              /\ StepGives(Start(c, TRUE),
                           /\ pc'[c] = "check" /\ row' = row
                           /\ probe = c => called'[c] = NoCalls)
        /\ (probe = c /\ pc[c] = "raised"
              /\ exc[c] = <<SpannerMutexError, SpannerError>>) =>
              called[c] = NoCalls

\* The recorded start() has failed at validate, with a row of another client
\* in the table and nothing called.
C40_Witness ==
    \E c \in Clients : \E d \in OtherClients(c) :
        /\ probe = c /\ pc[c] = "raised"
        /\ exc[c] = <<SpannerMutexError, SpannerError>>
        /\ called[c] = NoCalls
        /\ RowIs(STARTED, d) /\ pc[d] = "cs"

====
